---------------------------- MODULE Spec2Model ----------------------------
(***************************************************************************)
(* A model of the RoseTTAFold fragment: the initial-structure network      *)
(* (network/InitStrGenerator.py), its two device helpers (network/utils)   *)
(* and the extension list of the lie_learn build script.                   *)
(*                                                                         *)
(* Tensors are modelled by what the code decides about them: their device, *)
(* their shape and the call whose inputs they were computed from (a        *)
(* content tag).  The arithmetic of the third-party layers is not          *)
(* modelled; get_seqsep, which is the repository's own arithmetic, is      *)
(* computed in fixed point with four decimals.                             *)
(***************************************************************************)
EXTENDS Integers, Sequences, FiniteSets

VARIABLES
    \* ---- InitStr_Network and the forward call in progress
    pc,          \* position inside InitStr_Network.forward
    created,     \* device the model was created on
    paramDev,    \* device of the parameters of each submodule
    ncalls,      \* forward calls started so far
    nreturned,   \* forward calls that returned a result
    inp,         \* inputs of the call in progress
    device,      \* local `device` of forward
    fallback,    \* local `fallback` of forward
    node,        \* local `node` of forward
    pair,        \* local `pair` of forward
    G,           \* local `G` of forward
    Gout,        \* local `Gout` of forward
    ret,         \* what the most recent call gave its caller
    \* ---- the two helpers, called on their own
    cudaAvailable,   \* torch.cuda.is_available()
    fbCall,          \* last call of fallback_to_cpu_if_mps: argument, result
    decCall,         \* last decoration: enabled, func, result
    \* ---- get_seqsep called on its own
    sqIdx, sqOut,
    \* ---- the build script
    files, pyx_files, extensions, bpc

netVars   == <<pc, created, paramDev, ncalls, nreturned, inp, device, fallback, node, pair, G, Gout, ret>>
helpVars  == <<cudaAvailable, fbCall, decCall>>
sepVars   == <<sqIdx, sqOut>>
buildVars == <<files, pyx_files, extensions, bpc>>
vars      == <<netVars, helpVars, sepVars, buildVars>>

(***************************************************************************)
(* Bounds of the model.                                                    *)
(***************************************************************************)
MaxElems   == 4    \* B*L of a forward call is at most this
MaxIdx     == 2    \* residue indices of a forward call are 0..MaxIdx
MaxCalls   == 2    \* forward calls in one behaviour
SepElems   == 3    \* B*L of a direct get_seqsep call is at most this
SepSpan    == 1    \* residue indices of a direct get_seqsep call: 0..SepSpan, near and far
MaxPathLen == 3    \* characters of a .pyx file's path below lie_learn/, extension excluded
MaxFiles   == 2    \* .pyx files in the source tree

Abs(n)    == IF n < 0 THEN -n ELSE n
Sign(n)   == IF n < 0 THEN -1 ELSE IF n > 0 THEN 1 ELSE 0
Min(a, b) == IF a < b THEN a ELSE b
Max(a, b) == IF a < b THEN b ELSE a

(***************************************************************************)
(* Devices: torch.device is a type and an index (-1: no index).            *)
(***************************************************************************)
Dev(t, i) == [type |-> t, index |-> i]
cpu       == Dev("cpu", -1)
Devices   == {cpu, Dev("mps", -1), Dev("mps", 0), Dev("cuda", 0), Dev("cuda", 1)}
\* devices a model's parameters can be on
ModelDevices == {cpu, Dev("mps", 0), Dev("cuda", 0), Dev("cuda", 1)}

\* utils_mps_fallback.py
fallback_to_cpu_if_mps_always_cpu(d) == cpu
fallback_to_cpu_if_mps_identity(d) == d
fallback_to_cpu_if_mps(d) ==
    IF d.type = "mps" THEN cpu ELSE d

(***************************************************************************)
(* utils_decorators.py.  A function object is a record; autocast(enabled)  *)
(* applied to func is a new object that wraps it.                          *)
(***************************************************************************)
Funcs == {"UniMPBlock.forward", "f", "g", "h"}
Raw(f) == [kind |-> "function", func |-> f, enabled |-> FALSE]
Autocast(enabled, func) == [kind |-> "autocast", func |-> func.func, enabled |-> enabled]

cuda_amp_autocast_unconditional(enabled, func, available) == Autocast(enabled, func)
cuda_amp_autocast(enabled, func, available) ==
    IF available THEN Autocast(enabled, func) ELSE func

(***************************************************************************)
(* InitStrGenerator.py: tensors, graphs and the modules of the network.    *)
(***************************************************************************)
Contents == {"p", "q"}    \* what distinguishes the inputs of one call from another's

Tensor(tag, op, dev, shape) == [tag |-> tag, op |-> op, dev |-> dev, shape |-> shape]
NoTensor == Tensor("none", "none", cpu, <<>>)
NoInput  == [tag |-> "none", dev |-> cpu, B |-> 0, L |-> 0, idx |-> <<>>]
NoGraph  == [x |-> NoTensor,
             edge_index |-> [src |-> <<>>, tgt |-> <<>>, dev |-> cpu],
             edge_attr  |-> [tag |-> "none", at |-> <<>>, dev |-> cpu]]
NoReturn == [status |-> "none", xyz |-> NoTensor]

Shapes(maxElems) == {s \in (1..maxElems) \X (1..maxElems) : s[1] * s[2] <= maxElems}
Idxs(B, L, vals) == [0..(B-1) -> [0..(L-1) -> vals]]

\* InitStr_Network.__init__: the submodules in the order they are registered
nblocks == 3
Mod(name)  == [name |-> name, block |-> -1]
Block(k)   == [name |-> "transformer", block |-> k]
ModuleOrder ==
    <<Mod("norm_node"), Mod("norm_edge"), Mod("encoder_seq"), Mod("embed_x"), Mod("embed_e")>>
    \o [k \in 1..nblocks |-> Block(k - 1)]
    \o <<Mod("get_xyz")>>
Modules == {ModuleOrder[k] : k \in 1..Len(ModuleOrder)}
TransformerBlocks == {m \in Modules : m.name = "transformer"}

\* next(self.parameters()): the first parameter of the first registered submodule
FirstParameterModule == ModuleOrder[1]

\* nn.Module.to(dev) on the submodules `mods`: their parameters move, nothing else does
To_whole_model(mods, dev, pd) == [m \in DOMAIN pd |-> dev]
To(mods, dev, pd) == [m \in DOMAIN pd |-> IF m \in mods THEN dev ELSE pd[m]]

\* Tensor.to(dev)
TensorTo(t, dev) == [t EXCEPT !.dev = dev]

\* torch.where(sep > 0): the (b, i, j) with idx[b,i] /= idx[b,j], in row-major order
EdgeTriples(B, L, idx) ==
    LET all == [n \in 1..(B * L * L) |->
                   <<(n - 1) \div (L * L), ((n - 1) \div L) % L, (n - 1) % L>>]
        sep(t) == Abs(idx[t[1]][t[3]] - idx[t[1]][t[2]])
    IN  SelectSeq(all, LAMBDA t : sep(t) > 0)

make_graph(nd, idx, emb) ==
    LET fb   == fallback_to_cpu_if_mps(emb.dev)
        B    == emb.shape[1]
        L    == emb.shape[2]
        bij  == EdgeTriples(B, L, idx)
        src  == [k \in 1..Len(bij) |-> bij[k][1] * L + bij[k][2]]
        tgt  == [k \in 1..Len(bij) |-> bij[k][1] * L + bij[k][3]]
        x    == TensorTo(Tensor(nd.tag, "reshape", nd.dev, <<B * L>>), fb)
    IN  [x |-> x,
         edge_index |-> [src |-> src, tgt |-> tgt, dev |-> fb],
         edge_attr  |-> [tag |-> emb.tag, at |-> bij, dev |-> fb]]

\* UniMPBlock.forward: a new Data with the block's node output and the same edges
UniMPBlock_forward(g) ==
    [x |-> Tensor(g.x.tag, "UniMPBlock", g.x.dev, g.x.shape),
     edge_index |-> g.edge_index,
     edge_attr  |-> g.edge_attr]

\* nn.Sequential over the first n blocks
RECURSIVE Sequential(_, _)
Sequential(g, n) == IF n = 0 THEN g ELSE UniMPBlock_forward(Sequential(g, n - 1))

\* a layer runs only on tensors that are on the device of its parameters
GraphOn(g, dev) == g.x.dev = dev /\ g.edge_index.dev = dev /\ g.edge_attr.dev = dev

\* what forward's locals become when the call returns or raises
DroppedGraph_kept(g) == g
DroppedGraph(g) == NoGraph

(***************************************************************************)
(* InitStr_Network.forward, one step per group of statements.              *)
(***************************************************************************)
NetInit ==
    /\ pc = "idle"
    /\ created \in ModelDevices
    /\ paramDev = [m \in Modules |-> created]
    /\ ncalls = 0
    /\ nreturned = 0
    /\ inp = NoInput
    /\ device = cpu
    /\ fallback = cpu
    /\ node = NoTensor
    /\ pair = NoTensor
    /\ G = NoGraph
    /\ Gout = NoGraph
    /\ ret = NoReturn

NetIdle ==
    /\ pc = "idle"
    /\ created = cpu
    /\ paramDev = [m \in Modules |-> cpu]
    /\ ncalls = 0
    /\ nreturned = 0
    /\ inp = NoInput
    /\ device = cpu
    /\ fallback = cpu
    /\ node = NoTensor
    /\ pair = NoTensor
    /\ G = NoGraph
    /\ Gout = NoGraph
    /\ ret = NoReturn

DropLocals ==
    /\ inp' = NoInput
    /\ device' = cpu
    /\ fallback' = cpu
    /\ node' = NoTensor
    /\ pair' = NoTensor
    /\ G' = DroppedGraph(G)
    /\ Gout' = DroppedGraph(Gout)

\* lines 105-107, with inputs on the device of the parameters
ForwardBegin ==
    /\ pc = "idle"
    /\ ncalls < MaxCalls
    /\ \E tag \in Contents, s \in Shapes(MaxElems) :
         \E idx \in Idxs(s[1], s[2], 0..MaxIdx) :
            inp' = [tag |-> tag, dev |-> paramDev[FirstParameterModule],
                    B |-> s[1], L |-> s[2], idx |-> idx]
    /\ device' = paramDev[FirstParameterModule]
    /\ fallback' = fallback_to_cpu_if_mps(paramDev[FirstParameterModule])
    /\ ncalls' = ncalls + 1
    /\ ret' = [status |-> "running", xyz |-> NoTensor]
    /\ pc' = "begun"
    /\ UNCHANGED <<created, paramDev, nreturned, node, pair, G, Gout>>
    /\ UNCHANGED <<helpVars, sepVars, buildVars>>

\* lines 105-108, with inputs on another device: norm_node raises, nothing has moved
ForwardRaise ==
    /\ pc = "idle"
    /\ ncalls < MaxCalls
    /\ \E d \in ModelDevices : d /= paramDev[Mod("norm_node")]
    /\ ncalls' = ncalls + 1
    /\ ret' = [status |-> "raised on input", xyz |-> NoTensor]
    /\ DropLocals
    /\ UNCHANGED <<pc, created, paramDev, nreturned>>
    /\ UNCHANGED <<helpVars, sepVars, buildVars>>

\* lines 108-119
Embed ==
    /\ pc = "begun"
    /\ node' = Tensor(inp.tag, "embed_x", inp.dev, <<inp.B, inp.L>>)
    /\ pair' = Tensor(inp.tag, "embed_e", inp.dev, <<inp.B, inp.L, inp.L>>)
    /\ pc' = "embedded"
    /\ UNCHANGED <<created, paramDev, ncalls, nreturned, inp, device, fallback, G, Gout, ret>>
    /\ UNCHANGED <<helpVars, sepVars, buildVars>>

\* line 123
MakeGraph ==
    /\ pc = "embedded"
    /\ G' = make_graph(node, inp.idx, pair)
    /\ pc' = "graph"
    /\ UNCHANGED <<created, paramDev, ncalls, nreturned, inp, device, fallback, node, pair, Gout, ret>>
    /\ UNCHANGED <<helpVars, sepVars, buildVars>>

\* line 129: the blocks are moved, then run one after the other
Transformer ==
    /\ pc = "graph"
    /\ paramDev' = To(TransformerBlocks, fallback, paramDev)
    /\ IF \A m \in TransformerBlocks : GraphOn(G, paramDev'[m])
         THEN /\ Gout' = Sequential(G, nblocks)
              /\ pc' = "transformed"
              /\ UNCHANGED <<ncalls, inp, device, fallback, node, pair, G, ret>>
         ELSE /\ ret' = [status |-> "raised on device", xyz |-> NoTensor]
              /\ pc' = "idle"
              /\ DropLocals
              /\ UNCHANGED ncalls
    /\ UNCHANGED <<created, nreturned>>
    /\ UNCHANGED <<helpVars, sepVars, buildVars>>

\* lines 131-133
Output ==
    /\ pc = "transformed"
    /\ LET xin == TensorTo(Gout.x, device)
       IN  IF xin.dev = paramDev[Mod("get_xyz")]
             THEN /\ ret' = [status |-> "returned",
                             xyz |-> Tensor(xin.tag, "get_xyz", xin.dev, <<inp.B, inp.L, 3, 3>>)]
                  /\ nreturned' = nreturned + 1
             ELSE /\ ret' = [status |-> "raised on device", xyz |-> NoTensor]
                  /\ UNCHANGED nreturned
    /\ pc' = "idle"
    /\ DropLocals
    /\ UNCHANGED <<created, paramDev, ncalls>>
    /\ UNCHANGED <<helpVars, sepVars, buildVars>>

(***************************************************************************)
(* The two helpers called on their own, with any argument.                 *)
(***************************************************************************)
HelpIdle ==
    /\ cudaAvailable = FALSE
    /\ fbCall = [called |-> FALSE, arg |-> cpu, res |-> cpu]
    /\ decCall = [called |-> FALSE, enabled |-> FALSE, func |-> Raw("f"), res |-> Raw("f")]

HelpInit ==
    /\ cudaAvailable \in BOOLEAN
    /\ fbCall = [called |-> FALSE, arg |-> cpu, res |-> cpu]
    /\ decCall = [called |-> FALSE, enabled |-> FALSE, func |-> Raw("f"), res |-> Raw("f")]

CallFallback ==
    /\ \E d \in Devices :
         fbCall' = [called |-> TRUE, arg |-> d, res |-> fallback_to_cpu_if_mps(d)]
    /\ UNCHANGED <<cudaAvailable, decCall>>
    /\ UNCHANGED <<netVars, sepVars, buildVars>>

\* @cuda_amp_autocast(enabled=...) above a def
Decorate ==
    /\ \E enabled \in BOOLEAN, f \in Funcs :
         decCall' = [called |-> TRUE, enabled |-> enabled, func |-> Raw(f),
                     res |-> cuda_amp_autocast(enabled, Raw(f), cudaAvailable)]
    /\ UNCHANGED <<cudaAvailable, fbCall>>
    /\ UNCHANGED <<netVars, sepVars, buildVars>>

HelpNext == CallFallback \/ Decorate

(***************************************************************************)
(* get_seqsep.  Floats are fixed point with four decimals: 5.5 is 55000.   *)
(***************************************************************************)
RECURSIVE Log2Floor(_)
Log2Floor(n) == IF n < 2 THEN 0 ELSE 1 + Log2Floor(n \div 2)

RECURSIVE Pow2(_)
Pow2(k) == IF k = 0 THEN 1 ELSE 2 * Pow2(k - 1)

\* torch.log of an integer n >= 1: k*ln 2 + 2*atanh((n - 2^k)/(n + 2^k)), 2^k <= n < 2^(k+1)
Log(n) ==
    LET k  == Log2Floor(n)
        p  == Pow2(k)
        y  == ((n - p) * 10000) \div (n + p)
        y2 == (y * y) \div 10000
        y3 == (y * y2) \div 10000
        y5 == (y3 * y2) \div 10000
        y7 == (y5 * y2) \div 10000
    IN  k * 6931 + 2 * (y + y3 \div 3 + y5 \div 5 + y7 \div 7)

\* torch.clamp
Clamp(x, lo, hi) == Min(Max(x, lo), hi)

get_seqsep_unsigned(idx) ==
    [b \in DOMAIN idx |-> [i \in DOMAIN idx[b] |-> [j \in DOMAIN idx[b] |->
        <<Clamp(Log(Abs(idx[b][j] - idx[b][i]) + 1), 0, 55000)>>]]]
get_seqsep(idx) ==
    [b \in DOMAIN idx |-> [i \in DOMAIN idx[b] |-> [j \in DOMAIN idx[b] |->
        LET seqsep == idx[b][j] - idx[b][i]
            sign   == Sign(seqsep)
            logged == Log(Abs(seqsep) + 1)
            capped == Clamp(logged, 0, 55000)
        IN  <<sign * capped>>]]]

\* residue indices next to each other, and others far enough for the cap to act
SepValues == (0..SepSpan) \cup {243 + k : k \in 0..SepSpan}

SepIdle ==
    /\ sqIdx = <<>>
    /\ sqOut = [done |-> FALSE, val |-> <<>>]

SepInit ==
    /\ \E s \in Shapes(SepElems) : sqIdx \in Idxs(s[1], s[2], SepValues)
    /\ sqOut = [done |-> FALSE, val |-> <<>>]

GetSeqsep ==
    /\ ~sqOut.done
    /\ sqOut' = [done |-> TRUE, val |-> get_seqsep(sqIdx)]
    /\ UNCHANGED sqIdx
    /\ UNCHANGED <<netVars, helpVars, buildVars>>

SepNext == GetSeqsep

(***************************************************************************)
(* lie_learn/setup.py.  A path is a sequence of characters; "lie_learn"    *)
(* and "pyx" are one character each, file and directory names are made of  *)
(* "a" and ".".                                                            *)
(***************************************************************************)
RECURSIVE SeqsUpTo(_, _)
SeqsUpTo(S, n) ==
    IF n = 0 THEN {<<>>}
    ELSE LET shorter == SeqsUpTo(S, n - 1)
         IN  shorter \cup {Append(q, c) : q \in shorter, c \in S}

\* what glob("lie_learn/**/*.pyx", recursive=True) can match below lie_learn/: no empty
\* name, and no name that starts with a dot (glob skips hidden files and directories)
Stems ==
    {q \in SeqsUpTo({"a", ".", "/"}, MaxPathLen) :
        /\ Len(q) >= 1
        /\ q[1] = "a"
        /\ q[Len(q)] /= "/"
        /\ \A k \in 1..(Len(q) - 1) : q[k] = "/" => q[k + 1] = "a"}
PyxPaths == {<<"lie_learn", "/">> \o q \o <<".", "pyx">> : q \in Stems}

RECURSIVE SubsetsUpTo(_, _)
SubsetsUpTo(S, n) ==
    IF n = 0 THEN {{}}
    ELSE LET smaller == SubsetsUpTo(S, n - 1)
         IN  smaller \cup {t \cup {x} : t \in smaller, x \in S}

\* the orders glob can list the files of a directory tree in
Listings(S) ==
    {q \in [1..Cardinality(S) -> S] : \A i, j \in 1..Cardinality(S) : q[i] = q[j] => i = j}

\* str.rfind
RFind(p, c) ==
    LET at == {k \in 1..Len(p) : p[k] = c}
    IN  IF at = {} THEN 0 ELSE CHOOSE k \in at : \A m \in at : m <= k

\* os.path.relpath(p, start) for a relative p and a one-name start
relpath(p, start) ==
    IF Len(p) >= 2 /\ p[1] = start /\ p[2] = "/"
    THEN SubSeq(p, 3, Len(p))
    ELSE <<"..", "/">> \o p

\* os.path.splitext(p)[0]: cut at the last dot of the last name, unless that name
\* is dots only up to there
splitext_root(p) ==
    LET sepIndex == RFind(p, "/")
        dotIndex == RFind(p, ".")
    IN  IF dotIndex > sepIndex
           /\ \E k \in (sepIndex + 1)..(dotIndex - 1) : p[k] /= "."
        THEN SubSeq(p, 1, dotIndex - 1)
        ELSE p

\* str.replace(old, new) for one-character strings
replace(p, old, new) == [k \in 1..Len(p) |-> IF p[k] = old THEN new ELSE p[k]]

\* the name argument of Extension(...)
ModuleName(pyx_file) ==
    <<"lie_learn", ".">> \o replace(splitext_root(relpath(pyx_file, "lie_learn")), "/", ".")

Extension_shared_source(pyx_file, all) ==
    [name |-> ModuleName(pyx_file), sources |-> all, libraries |-> <<"lapack", "blas">>]
Extension(pyx_file, all) ==
    [name |-> ModuleName(pyx_file), sources |-> <<pyx_file>>, libraries |-> <<"lapack", "blas">>]

BuildIdle ==
    /\ files = {}
    /\ pyx_files = <<>>
    /\ extensions = <<>>
    /\ bpc = "start"

BuildInit ==
    /\ files \in SubsetsUpTo(PyxPaths, MaxFiles)
    /\ pyx_files = <<>>
    /\ extensions = <<>>
    /\ bpc = "start"

\* line 19
Glob ==
    /\ bpc = "start"
    /\ pyx_files' \in Listings(files)
    /\ bpc' = "globbed"
    /\ UNCHANGED <<files, extensions>>
    /\ UNCHANGED <<netVars, helpVars, sepVars>>

\* lines 22-44
MakeExtensions ==
    /\ bpc = "globbed"
    /\ extensions' = [k \in 1..Len(pyx_files) |-> Extension(pyx_files[k], pyx_files)]
    /\ bpc' = "built"
    /\ UNCHANGED <<files, pyx_files>>
    /\ UNCHANGED <<netVars, helpVars, sepVars>>

BuildNext == Glob \/ MakeExtensions

(***************************************************************************)
(* Specifications: the network (Spec), and each of the helpers, get_seqsep *)
(* and the build script run on its own.                                    *)
(***************************************************************************)
Init == NetInit /\ HelpIdle /\ SepIdle /\ BuildIdle
Next == ForwardBegin \/ ForwardRaise \/ Embed \/ MakeGraph \/ Transformer \/ Output
Spec == Init /\ [][Next]_vars

InitHelpers == NetIdle /\ HelpInit /\ SepIdle /\ BuildIdle
SpecHelpers == InitHelpers /\ [][HelpNext]_vars

InitSeqsep == NetIdle /\ HelpIdle /\ SepInit /\ BuildIdle
SpecSeqsep == InitSeqsep /\ [][SepNext]_vars

InitBuild == NetIdle /\ HelpIdle /\ SepIdle /\ BuildInit
SpecBuild == InitBuild /\ [][BuildNext]_vars

(***************************************************************************)
(* Properties.                                                             *)
(***************************************************************************)

\* C1: fallback_to_cpu_if_mps returns the CPU device for a device of type mps and the
\* device it was given for any other type, so its result is never an MPS device.
C1_FallbackResult ==
    fbCall.called =>
        /\ fbCall.arg.type = "mps" => fbCall.res = cpu
        /\ fbCall.arg.type /= "mps" => fbCall.res = fbCall.arg
        /\ fbCall.res.type /= "mps"

C1_Witness ==
    fbCall.called /\ fbCall.arg = Dev("mps", 0) /\ fbCall.res = cpu

\* C2: the decorator of cuda_amp_autocast(enabled) gives func wrapped in autocast with
\* that enabled flag when CUDA is available, and func itself when it is not, whatever
\* enabled is.
C2_ConditionalAutocast ==
    decCall.called =>
        IF cudaAvailable
        THEN /\ decCall.res.kind = "autocast"
             /\ decCall.res.func = decCall.func.func
             /\ decCall.res.enabled = decCall.enabled
        ELSE decCall.res = decCall.func

C2_Witness ==
    decCall.called /\ ~cudaAvailable /\ decCall.enabled /\ decCall.res = decCall.func

\* C3: in forward, the graph and the transformer blocks are on the CPU when the model's
\* device is MPS and on the model's device otherwise when the transformer runs, the
\* transformer never meets a tensor on another device than its own, and the
\* coordinates returned are on the model's device.
C3_Placement ==
    LET target == IF device.type = "mps" THEN cpu ELSE device
    IN  /\ pc \in {"graph", "transformed"} => GraphOn(G, target)
        /\ pc = "transformed" =>
              /\ \A m \in TransformerBlocks : paramDev[m] = target
              /\ GraphOn(Gout, target)
        /\ ret.status /= "raised on device"
        /\ ret.status = "returned" => ret.xyz.dev = created

C3_Witness ==
    /\ pc = "idle"
    /\ created.type = "mps"
    /\ ret.status = "returned"
    /\ ret.xyz.dev = created
    /\ \A m \in TransformerBlocks : paramDev[m] = cpu

\* C4: every entry of get_seqsep's result has the sign of idx[b,j] - idx[b,i] and the
\* magnitude log(|idx[b,j] - idx[b,i]| + 1) capped at 5.5; it is 0 exactly when the two
\* indices are equal, the negative of the mirrored entry, and within [-5.5, 5.5].
C4_Seqsep ==
    sqOut.done =>
        \A b \in DOMAIN sqIdx : \A i, j \in DOMAIN sqIdx[b] :
            LET d == sqIdx[b][j] - sqIdx[b][i]
                e == sqOut.val[b][i][j][1]
            IN  /\ Len(sqOut.val[b][i][j]) = 1
                /\ Sign(e) = Sign(d)
                /\ Abs(e) = Min(Log(Abs(d) + 1), 55000)
                /\ e = 0 <=> sqIdx[b][i] = sqIdx[b][j]
                /\ e = -sqOut.val[b][j][i][1]
                /\ -55000 <= e /\ e <= 55000

C4_Witness ==
    /\ sqOut.done
    /\ \E b \in DOMAIN sqIdx : \E i, j, k \in DOMAIN sqIdx[b] :
          /\ sqOut.val[b][i][j][1] = -55000
          /\ sqOut.val[b][j][k][1] > 0
          /\ sqOut.val[b][j][k][1] < 55000

\* The characters of a .pyx file's path between "lie_learn/" and ".pyx".
StemOf(pyx_file) == SubSeq(pyx_file, 3, Len(pyx_file) - 2)
HasDot(q) == \E k \in 1..Len(q) : q[k] = "."

\* One Extension per .pyx file found, with that file as its only source and the name
\* "lie_learn." + the path below lie_learn/ without extension, separators as dots.
OneExtensionPerFile ==
    /\ Len(extensions) = Cardinality(files)
    /\ \A f \in files : \E k \in 1..Len(extensions) : extensions[k].sources = <<f>>
    /\ \A k \in 1..Len(extensions) :
          /\ Len(extensions[k].sources) = 1
          /\ extensions[k].sources[1] \in files
          /\ extensions[k].name =
                <<"lie_learn", ".">>
                \o [n \in 1..Len(StemOf(extensions[k].sources[1])) |->
                       IF StemOf(extensions[k].sources[1])[n] = "/"
                       THEN "."
                       ELSE StemOf(extensions[k].sources[1])[n]]

\* C5 as stated: one Extension per .pyx file, named after its path, and two distinct
\* .pyx files never get the same module name.
C5_NamesAlwaysDistinct ==
    bpc = "built" =>
        /\ OneExtensionPerFile
        /\ \A k, m \in 1..Len(extensions) :
              extensions[k].sources /= extensions[m].sources
                 => extensions[k].name /= extensions[m].name

\* C5, amended: one Extension per .pyx file, named after its path, and two distinct
\* .pyx files whose paths below lie_learn/ hold no dot but the one of the extension
\* never get the same module name.
C5_NamesDistinctWithoutDots ==
    bpc = "built" =>
        /\ OneExtensionPerFile
        /\ \A k, m \in 1..Len(extensions) :
              /\ extensions[k].sources /= extensions[m].sources
              /\ ~HasDot(StemOf(extensions[k].sources[1]))
              /\ ~HasDot(StemOf(extensions[m].sources[1]))
              => extensions[k].name /= extensions[m].name

C5_Witness ==
    /\ bpc = "built"
    /\ Len(extensions) = 2
    /\ extensions[1].name = <<"lie_learn", ".", "a", ".", "a">>
    /\ extensions[1].sources = <<(<<"lie_learn", "/", "a", "/", "a", ".", "pyx">>)>>
    /\ ~HasDot(StemOf(extensions[2].sources[1]))
    /\ extensions[2].name /= extensions[1].name

\* The edges of g are those of idx: one for each b, i, j with idx[b,i] /= idx[b,j],
\* from node b*L+i to node b*L+j, with the attribute of (b, i, j).
EdgesOf(g, B, L, idx) ==
    LET ei == g.edge_index
        n  == Len(ei.src)
    IN  /\ Len(ei.tgt) = n
        /\ Len(g.edge_attr.at) = n
        /\ \A k \in 1..n :
              LET b == ei.src[k] \div L
                  i == ei.src[k] % L
                  j == ei.tgt[k] % L
              IN  /\ b \in 0..(B - 1)
                  /\ ei.tgt[k] \div L = b
                  /\ idx[b][i] /= idx[b][j]
                  /\ g.edge_attr.at[k] = <<b, i, j>>
        /\ \A b \in 0..(B - 1) : \A i, j \in 0..(L - 1) :
              idx[b][i] /= idx[b][j] =>
                 Cardinality({k \in 1..n : ei.src[k] = b * L + i /\ ei.tgt[k] = b * L + j}) = 1

\* C6: no graph exists outside a forward call or before the call's own make_graph, and
\* the graph a call works on is built from that call's inputs: its node features and
\* edge attributes from the call's msa, pair and seq1hot, its edges from the call's idx.
C6_GraphPerCall ==
    /\ pc \in {"idle", "begun", "embedded"} => G = NoGraph /\ Gout = NoGraph
    /\ pc = "graph" => Gout = NoGraph
    /\ pc \in {"graph", "transformed"} =>
          /\ G.x.tag = inp.tag
          /\ G.x.shape = <<inp.B * inp.L>>
          /\ G.edge_attr.tag = inp.tag
          /\ EdgesOf(G, inp.B, inp.L, inp.idx)
    /\ pc = "transformed" =>
          /\ Gout.x.tag = inp.tag
          /\ Gout.edge_index = G.edge_index
          /\ Gout.edge_attr = G.edge_attr

C6_Witness ==
    /\ pc = "graph"
    /\ ncalls = 2
    /\ nreturned = 1
    /\ ret.status = "running"
    /\ inp.B = 2
    /\ Len(G.edge_index.src) = 2
    /\ G.edge_index.src[1] >= inp.L

\* C7: make_graph creates an edge between residues i and j of a batch element only
\* when |idx[b,i] - idx[b,j]| <= kmin, for a fixed kmin; here for any kmin below the
\* largest separation the indices of the call can have.
C7_OnlyWithinKmin ==
    pc \in {"graph", "transformed"} =>
        \E kmin \in 0..(MaxIdx - 1) :
            \A k \in 1..Len(G.edge_attr.at) :
                LET b == G.edge_attr.at[k][1]
                    i == G.edge_attr.at[k][2]
                    j == G.edge_attr.at[k][3]
                IN  Abs(inp.idx[b][i] - inp.idx[b][j]) <= kmin

\* C8: the device forward resolves from the first parameter is the device the model
\* was created on, whatever calls came before; only the transformer blocks ever move,
\* and they are on fallback_to_cpu_if_mps of that device from the first call that
\* returns onwards.
C8_DeviceStable ==
    /\ paramDev[FirstParameterModule] = created
    /\ pc /= "idle" => device = created /\ fallback = (IF created.type = "mps" THEN cpu ELSE created)
    /\ \A m \in Modules \ TransformerBlocks : paramDev[m] = created
    /\ \A m \in TransformerBlocks :
          paramDev[m] \in {created, IF created.type = "mps" THEN cpu ELSE created}
    /\ nreturned >= 1 =>
          \A m \in TransformerBlocks :
             paramDev[m] = (IF created.type = "mps" THEN cpu ELSE created)

C8_Witness ==
    /\ pc = "begun"
    /\ nreturned >= 1
    /\ created.type = "mps"
    /\ device = created
    /\ \A m \in TransformerBlocks : paramDev[m] = cpu

====
